---- MODULE Spec2Model ----
(***************************************************************************)
(* A model of droidrun's HarmonyOS support: the state provider             *)
(* (tools/ui/harmony_provider.py) that turns a uitest layout dump into an  *)
(* indexed element list, and the hdc driver (tools/driver/harmony.py).     *)
(*                                                                         *)
(* Python values are modelled as tagged records:                           *)
(*   [none |-> TRUE]  None          [int |-> n]   an int                   *)
(*   [str |-> toks]   a str         [map |-> d]   a dict                   *)
(*   [list |-> s]     a list                                               *)
(* A dict is the sequence of its [k, v] items in insertion order (Python   *)
(* dicts iterate in that order).  A str is a sequence of tokens:           *)
(*   [n |-> i]  a maximal run -?\d+ spelling the integer i                 *)
(*   [w |-> s]  a run of other non-blank characters (no digit, '.', ',')   *)
(*   [sp |-> TRUE] white space, [dot |-> TRUE] '.', [comma |-> TRUE] ','   *)
(***************************************************************************)
EXTENDS Integers, Sequences, FiniteSets, TLC

VARIABLES
    \* --- bounds extractor, applied to one node
    benc, bgeom, bnode, provBounds, drvBounds, bpc,
    \* --- state query: get_ui_tree's result, _parse_layout's loop, get_state
    layout, lpc, nodes, idx, elements, seen, kept, lerr, snapshot,
    \* --- _parse_json_payload, applied to one payload
    payload, jresult, jpc,
    \* --- the driver: its fields, the operation in progress and its position,
    \* the hdc commands the operation has issued (with their results), the
    \* operation's locals and what it gave its caller
    connected, serial, op, dpc, cmds, output, resolved, localExists, primary, outcome

bvars == <<benc, bgeom, bnode, provBounds, drvBounds, bpc>>
lvars == <<layout, lpc, nodes, idx, elements, seen, kept, lerr, snapshot>>
jvars == <<payload, jresult, jpc>>
dvars == <<connected, serial, op, dpc, cmds, output, resolved, localExists, primary, outcome>>
vars == <<bvars, lvars, jvars, dvars>>

----------------------------------------------------------------------------
(* Python values *)

None == [none |-> TRUE]
IntV(i) == [int |-> i]
StrV(toks) == [str |-> toks]
MapV(d) == [map |-> d]
ListV(s) == [list |-> s]

Num(i) == [n |-> i]
Word(s) == [w |-> s]
Sp == [sp |-> TRUE]
Dot == [dot |-> TRUE]
Comma == [comma |-> TRUE]

IsNone(v) == "none" \in DOMAIN v
IsInt(v) == "int" \in DOMAIN v
IsStr(v) == "str" \in DOMAIN v
IsMap(v) == "map" \in DOMAIN v
IsList(v) == "list" \in DOMAIN v

Item(key, val) == [k |-> key, v |-> val]

\* key in d
Has(d, key) == \E i \in 1..Len(d) : d[i].k = key

\* d.get(key, default)
GetOr(d, key, default) ==
    IF Has(d, key) THEN d[CHOOSE i \in 1..Len(d) : d[i].k = key].v ELSE default

\* d.get(key)
Get(d, key) == GetOr(d, key, None)

\* bool(v)
Truthy(v) ==
    CASE IsNone(v) -> FALSE
      [] IsInt(v) -> v.int # 0
      [] IsStr(v) -> v.str # <<>>
      [] IsMap(v) -> v.map # <<>>
      [] IsList(v) -> v.list # <<>>

\* a or b
PyOr(a, b) == IF Truthy(a) THEN a ELSE b

RECURSIVE LStrip(_)
LStrip(s) == IF s # <<>> /\ s[1] = Sp THEN LStrip(Tail(s)) ELSE s

RECURSIVE RStrip(_)
RStrip(s) ==
    IF s # <<>> /\ s[Len(s)] = Sp THEN RStrip(SubSeq(s, 1, Len(s) - 1)) ELSE s

\* str.strip()
Strip(s) == RStrip(LStrip(s))

\* The outcome of an expression that may raise: err = "" and the value, or the
\* exception's type.
Ok(x) == [err |-> "", val |-> x]
Raise(e) == [err |-> e, val |-> 0]

\* int(v): an int as is, a str that spells one integer (blanks around it
\* allowed), ValueError for any other str, TypeError for None, dict, list.
PyInt(v) ==
    CASE IsInt(v) -> Ok(v.int)
      [] IsStr(v) ->
            LET s == Strip(v.str)
            IN  IF Len(s) = 1 /\ "n" \in DOMAIN s[1] THEN Ok(s[1].n)
                ELSE Raise("ValueError")
      [] OTHER -> Raise("TypeError")

\* re.findall(r"-?\d+", s), as integers
RECURSIVE FindInts(_)
FindInts(s) ==
    IF s = <<>> THEN <<>>
    ELSE IF "n" \in DOMAIN s[1] THEN <<s[1].n>> \o FindInts(Tail(s))
    ELSE FindInts(Tail(s))

----------------------------------------------------------------------------
(* The bounds extractors.  Their result: a rectangle, none, or an exception. *)

NoBounds == [kind |-> "none", rect |-> <<>>, err |-> ""]
Found(l, t, r, b) == [kind |-> "rect", rect |-> <<l, t, r, b>>, err |-> ""]
Raised(e) == [kind |-> "raise", rect |-> <<>>, err |-> e]

\* The four conversions are evaluated left to right; the first that raises
\* decides.  mk builds the rectangle from the four integers.
FirstErr(rs) ==
    LET bad == {i \in 1..Len(rs) : rs[i].err # ""}
    IN  IF bad = {} THEN ""
        ELSE rs[CHOOSE i \in bad : \A j \in bad : i <= j].err

FromCorners(rs) ==
    IF FirstErr(rs) # "" THEN Raised(FirstErr(rs))
    ELSE Found(rs[1].val, rs[2].val, rs[3].val, rs[4].val)

FromSize(rs) ==
    IF FirstErr(rs) # "" THEN Raised(FirstErr(rs))
    ELSE Found(rs[1].val, rs[2].val, rs[1].val + rs[3].val, rs[2].val + rs[4].val)

_BOUNDS_KEYS == <<"left", "top", "right", "bottom">>

HasAll(d, keys) == \A i \in 1..Len(keys) : Has(d, keys[i])

\* Format 1, shared by both extractors: bounds as a dict with the four keys.
DictBounds(b) ==
    FromCorners([i \in 1..4 |-> PyInt(Get(b.map, _BOUNDS_KEYS[i]))])

\* Format 2, shared: rect as a dict with left and top; width, height default 0.
RectBounds(r) ==
    FromSize(<<PyInt(GetOr(r.map, "left", IntV(0))),
               PyInt(GetOr(r.map, "top", IntV(0))),
               PyInt(GetOr(r.map, "width", IntV(0))),
               PyInt(GetOr(r.map, "height", IntV(0)))>>)

\* node.get("bounds") or node.get("bound") or node.get("frame")
RawBounds(node) ==
    PyOr(PyOr(Get(node, "bounds"), Get(node, "bound")), Get(node, "frame"))

XYWH_KEYS == <<"x", "y", "width", "height">>

\* Format 4: discrete x, y, width, height fields.
FieldBounds(node) ==
    FromSize(<<PyInt(GetOr(node, "x", IntV(0))),
               PyInt(GetOr(node, "y", IntV(0))),
               PyInt(GetOr(node, "width", IntV(0))),
               PyInt(GetOr(node, "height", IntV(0)))>>)

\* harmony_provider._extract_bounds
ProviderExtractBounds(node) ==
    LET bounds == Get(node, "bounds")
        rect == Get(node, "rect")
        rawb == RawBounds(node)
        nums == IF IsStr(rawb) THEN FindInts(rawb.str) ELSE <<>>
    IN  IF IsMap(bounds) /\ HasAll(bounds.map, _BOUNDS_KEYS) THEN DictBounds(bounds)
        ELSE IF IsMap(rect) /\ Has(rect.map, "left") /\ Has(rect.map, "top")
             THEN RectBounds(rect)
        ELSE IF IsStr(rawb) /\ Len(nums) >= 4
             THEN Found(nums[1], nums[2], nums[3], nums[4])
        ELSE IF HasAll(node, XYWH_KEYS) THEN FieldBounds(node)
        ELSE NoBounds

\* HarmonyDriver._extract_bounds
DriverExtractBounds(node) ==
    LET bounds == Get(node, "bounds")
        rect == Get(node, "rect")
        rawb == RawBounds(node)
        nums == IF IsStr(rawb) THEN FindInts(rawb.str) ELSE <<>>
    IN  IF IsMap(bounds) /\ HasAll(bounds.map, _BOUNDS_KEYS) THEN DictBounds(bounds)
        ELSE IF IsMap(rect) /\ HasAll(rect.map, <<"left", "top">>)
             THEN RectBounds(rect)
        ELSE IF IsStr(rawb) /\ Len(nums) >= 4
                /\ nums[3] >= nums[1] /\ nums[4] >= nums[2]
             THEN Found(nums[1], nums[2], nums[3], nums[4])
        ELSE NoBounds

----------------------------------------------------------------------------
(* harmony_provider: field lookup, traversal, _parse_layout's loop body *)

_CHILD_KEYS ==
    <<"children", "child", "nodes", "elements", "componentTree", "components",
      "subNodes">>
_TEXT_KEYS == <<"text", "label", "content", "description", "value", "hint", "title">>
_TYPE_KEYS == <<"type", "className", "componentType", "widgetType", "name">>
_ID_KEYS == <<"id", "resourceId", "componentId", "identifier", "key">>

InSeq(x, s) == \E i \in 1..Len(s) : s[i] = x

\* What one key contributes in _extract_first: a non-empty str, or "" (go on).
\* str(int) is the one-token string of that integer.
FirstCandidate(value) ==
    CASE IsInt(value) -> <<Num(value.int)>>
      [] IsStr(value) -> Strip(value.str)
      [] OTHER -> <<>>

\* harmony_provider._extract_first: the str, as its token sequence
RECURSIVE _extract_first(_, _)
_extract_first(node, keys) ==
    IF keys = <<>> THEN <<>>
    ELSE LET c == FirstCandidate(Get(node, Head(keys)))
         IN  IF c # <<>> THEN c ELSE _extract_first(node, Tail(keys))

\* s.split(".")[-1]
RECURSIVE LastSegment(_)
LastSegment(s) ==
    IF \E i \in 1..Len(s) : s[i] = Dot
    THEN LastSegment(SubSeq(s, (CHOOSE i \in 1..Len(s) : s[i] = Dot) + 1, Len(s)))
    ELSE s

RECURSIVE Flatten(_)
Flatten(ss) == IF ss = <<>> THEN <<>> ELSE Head(ss) \o Flatten(Tail(ss))

\* harmony_provider._iter_nodes: the dict itself, then what its child-alias keys
\* hold (in alias order), then what its other keys hold (in dict order).
RECURSIVE _iter_nodes(_)
_iter_nodes(obj) ==
    IF IsMap(obj)
    THEN LET d == obj.map
             viaChildKeys ==
                 [i \in 1..Len(_CHILD_KEYS) |->
                     IF IsNone(Get(d, _CHILD_KEYS[i])) THEN <<>>
                     ELSE _iter_nodes(Get(d, _CHILD_KEYS[i]))]
             viaOtherKeys ==
                 [i \in 1..Len(d) |->
                     IF InSeq(d[i].k, _CHILD_KEYS) THEN <<>> ELSE _iter_nodes(d[i].v)]
         IN  <<obj>> \o Flatten(viaChildKeys) \o Flatten(viaOtherKeys)
    ELSE IF IsList(obj)
    THEN Flatten([i \in 1..Len(obj.list) |-> _iter_nodes(obj.list[i])])
    ELSE <<>>

\* HarmonyDriver._iter_nodes: the dict itself, then its values in dict order.
RECURSIVE DriverIterNodes(_)
DriverIterNodes(obj) ==
    IF IsMap(obj)
    THEN <<obj>> \o Flatten([i \in 1..Len(obj.map) |-> DriverIterNodes(obj.map[i].v)])
    ELSE IF IsList(obj)
    THEN Flatten([i \in 1..Len(obj.list) |-> DriverIterNodes(obj.list[i])])
    ELSE <<>>

\* className: _extract_first over the type aliases, then the last dotted segment
ClassNameOf(node) ==
    LET c == _extract_first(node, _TYPE_KEYS) IN IF c # <<>> THEN LastSegment(c) ELSE c

ResourceIdOf(node) == _extract_first(node, _ID_KEYS)
TextOf(node) == _extract_first(node, _TEXT_KEYS)

\* right <= left or bottom <= top
DegenerateIfReversed(r) == r[3] < r[1] \/ r[4] < r[2]

\* right <= left or bottom <= top
Degenerate(r) == r[3] <= r[1] \/ r[4] <= r[2]

\* not class_name and not resource_id and not text
IsNoise(node) == ClassNameOf(node) = <<>> /\ ResourceIdOf(node) = <<>> /\ TextOf(node) = <<>>

\* (mutant) the resourceId made part of the signature
SignatureWithId(r, node) ==
    <<r[1], r[2], r[3], r[4], ClassNameOf(node), TextOf(node), ResourceIdOf(node)>>

\* (left, top, right, bottom, class_name, text)
Signature(r, node) == <<r[1], r[2], r[3], r[4], ClassNameOf(node), TextOf(node)>>

\* text or resource_id or class_name
DisplayText(node) ==
    IF TextOf(node) # <<>> THEN TextOf(node)
    ELSE IF ResourceIdOf(node) # <<>> THEN ResourceIdOf(node)
    ELSE ClassNameOf(node)

\* f"{left},{top},{right},{bottom}"
BoundsStr(r) == <<Num(r[1]), Comma, Num(r[2]), Comma, Num(r[3]), Comma, Num(r[4])>>

\* (mutant) a 0-based index
NextIndexFromZero(els) == Len(els)

\* The index the next appended element gets: len(elements) + 1
NextIndex(els) == Len(els) + 1

\* The dict appended for a retained node
NewElement(els, r, node) ==
    [index |-> NextIndex(els),
     resourceId |-> ResourceIdOf(node),
     className |-> ClassNameOf(node),
     text |-> DisplayText(node),
     bounds |-> BoundsStr(r)]

\* signature in seen
AlreadySeen(sig, sn) == sig \in sn

\* One iteration of _parse_layout's loop once _extract_bounds(node) gave b: the
\* filters, the dedup, the append.
ParseWith(acc, node, b) ==
    CASE b.kind = "raise" -> [acc EXCEPT !.err = b.err]
      [] b.kind = "none" -> acc
      [] OTHER ->
           IF Degenerate(b.rect) \/ IsNoise(node) THEN acc
           ELSE IF AlreadySeen(Signature(b.rect, node), acc.seen) THEN acc
           ELSE [acc EXCEPT !.seen = @ \cup {Signature(b.rect, node)},
                            !.elements = Append(@, NewElement(@, b.rect, node))]

\* One iteration of _parse_layout's loop on the dict `obj`, from the accumulated
\* (elements, seen): the new pair, or the exception _extract_bounds raised.
ParseNode(acc, obj) == ParseWith(acc, obj.map, ProviderExtractBounds(obj.map))

EmptyAcc == [elements |-> <<>>, seen |-> {}, err |-> ""]

\* harmony_provider._parse_layout as a whole: the loop over _iter_nodes(layout),
\* stopping at the first exception.
RECURSIVE ParseFrom(_, _)
ParseFrom(acc, ns) ==
    IF ns = <<>> \/ acc.err # "" THEN acc ELSE ParseFrom(ParseNode(acc, Head(ns)), Tail(ns))

_parse_layout(doc) == ParseFrom(EmptyAcc, _iter_nodes(doc))

----------------------------------------------------------------------------
(* Screen size: the driver's scan of the raw layout, the provider's scan of  *)
(* the element list, and get_state's choice between them.                   *)

DEFAULT_WIDTH == 1080
DEFAULT_HEIGHT == 2400

Max(a, b) == IF a >= b THEN a ELSE b

\* x or default, for an int x
IntOr(x, default) == IF x # 0 THEN x ELSE default

\* The rectangle the driver's scan takes from a node
DriverScanBounds(node) == DriverExtractBounds(node.map)

\* The loop body of HarmonyDriver._infer_screen_size, _extract_bounds(node)
\* having given b
ScanStep(acc, b) ==
    CASE b.kind = "raise" -> [acc EXCEPT !.err = b.err]
      [] b.kind = "none" -> acc
      [] OTHER -> [acc EXCEPT !.right = Max(@, b.rect[3]), !.bottom = Max(@, b.rect[4])]

\* HarmonyDriver._infer_screen_size's loop from the maxima so far
RECURSIVE DriverScan(_, _)
DriverScan(acc, ns) ==
    IF ns = <<>> \/ acc.err # "" THEN acc
    ELSE DriverScan(ScanStep(acc, DriverScanBounds(Head(ns))), Tail(ns))

\* return max_right or 1080, max_bottom or 2400
SizeOrDefault(m) == <<IntOr(m.right, DEFAULT_WIDTH), IntOr(m.bottom, DEFAULT_HEIGHT)>>

DriverSizeFrom(m) == IF m.err # "" THEN Raise(m.err) ELSE Ok(SizeOrDefault(m))

\* HarmonyDriver._infer_screen_size(layout): (width, height), or the exception
DriverInferScreenSize(doc) ==
    DriverSizeFrom(DriverScan([right |-> 0, bottom |-> 0, err |-> ""], DriverIterNodes(doc)))

\* get_ui_tree's return value, _infer_screen_size(layout) having given sz
UiTreeFrom(doc, sz) ==
    IF sz.err # "" THEN Raise(sz.err)
    ELSE Ok(<<Item("layout", doc),
              Item("phone_state", MapV(<<>>)),
              Item("screen_width", IntV(sz.val[1])),
              Item("screen_height", IntV(sz.val[2]))>>)

\* What get_ui_tree returns once the dump has been read and parsed into `doc`:
\* the layout and the driver's inferred size under screen_width / screen_height.
UiTreeOf(doc) == UiTreeFrom(doc, DriverInferScreenSize(doc))

\* s.split(","): the token runs between commas
RECURSIVE SplitComma(_)
SplitComma(s) ==
    IF \E i \in 1..Len(s) : s[i] = Comma
    THEN LET c == CHOOSE i \in 1..Len(s) : s[i] = Comma /\ \A j \in 1..(i - 1) : s[j] # Comma
         IN  <<SubSeq(s, 1, c - 1)>> \o SplitComma(SubSeq(s, c + 1, Len(s)))
    ELSE <<s>>

\* max_right, max_bottom = max(.., int(parts[2])), max(.., int(parts[3]))
ElementStep(acc, bounds, parts) ==
    IF bounds = <<>> \/ Len(parts) # 4 THEN acc
    ELSE [right |-> Max(acc.right, PyInt(StrV(parts[3])).val),
          bottom |-> Max(acc.bottom, PyInt(StrV(parts[4])).val)]

\* harmony_provider._infer_screen_size's loop over the elements
RECURSIVE ElementScan(_, _)
ElementScan(acc, els) ==
    IF els = <<>> THEN acc
    ELSE ElementScan(ElementStep(acc, Head(els).bounds, SplitComma(Head(els).bounds)),
                     Tail(els))

\* harmony_provider._infer_screen_size(elements)
ProviderInferScreenSize(els) ==
    SizeOrDefault(ElementScan([right |-> 0, bottom |-> 0], els))

\* int(raw.get(key) or 0)
ReportedSize(rawtree, key) == PyInt(PyOr(Get(rawtree, key), IntV(0))).val

\* if screen_width <= 0 or screen_height <= 0: infer from the elements
ChooseSize(w, h, els) ==
    IF w <= 0 \/ h <= 0 THEN ProviderInferScreenSize(els) ELSE <<w, h>>

\* The (screen_width, screen_height) get_state settles on
ScreenSizeOf(rawtree, els) ==
    ChooseSize(ReportedSize(rawtree, "screen_width"),
               ReportedSize(rawtree, "screen_height"), els)

RaisedState(e) == [err |-> e, elements |-> <<>>, size |-> <<>>]

\* get_state from `elements = _parse_layout(layout)` on
StateFromParsed(rawtree, parsed) ==
    IF parsed.err # "" THEN RaisedState(parsed.err)
    ELSE [err |-> "", elements |-> parsed.elements,
          size |-> ScreenSizeOf(rawtree, parsed.elements)]

\* get_state from `raw = await self.driver.get_ui_tree()` on
StateFromTree(tree) ==
    IF tree.err # "" THEN RaisedState(tree.err)
    ELSE StateFromParsed(tree.val, _parse_layout(GetOr(tree.val, "layout", MapV(<<>>))))

\* HarmonyStateProvider.get_state on a device whose dump parses to `doc`: the
\* UIState's elements and screen size, or the exception that reaches the caller.
StateOf(doc) == StateFromTree(UiTreeOf(doc))

----------------------------------------------------------------------------
(* One node through both extractors.  The node encodes the geometry        *)
(* (left, top, width, height) in one of the four supported ways.           *)

MaxCoord == 1
MaxSize == 2

Encodings == {"bounds", "rect", "string", "fields"}

\* "x1,y1,x2,y2"
QuartetStr(l, t, r, b) ==
    StrV(<<Num(l), Comma, Num(t), Comma, Num(r), Comma, Num(b)>>)

EncodeBounds(enc, l, t, w, h) ==
    CASE enc = "bounds" ->
            <<Item("bounds", MapV(<<Item("left", IntV(l)), Item("top", IntV(t)),
                                    Item("right", IntV(l + w)),
                                    Item("bottom", IntV(t + h))>>))>>
      [] enc = "rect" ->
            <<Item("rect", MapV(<<Item("left", IntV(l)), Item("top", IntV(t)),
                                  Item("width", IntV(w)), Item("height", IntV(h))>>))>>
      [] enc = "string" -> <<Item("bounds", QuartetStr(l, t, l + w, t + h))>>
      [] enc = "fields" ->
            <<Item("x", IntV(l)), Item("y", IntV(t)),
              Item("width", IntV(w)), Item("height", IntV(h))>>

BoundsIdle ==
    /\ benc = "" /\ bgeom = <<>> /\ bnode = <<>>
    /\ provBounds = NoBounds /\ drvBounds = NoBounds /\ bpc = "idle"

InitBounds ==
    /\ benc \in Encodings
    /\ bgeom \in (-1..MaxCoord) \X (-1..MaxCoord) \X (-1..MaxSize) \X (-1..MaxSize)
    /\ bnode = EncodeBounds(benc, bgeom[1], bgeom[2], bgeom[3], bgeom[4])
    /\ provBounds = NoBounds /\ drvBounds = NoBounds
    /\ bpc = "node"

\* harmony_provider._extract_bounds(node)
CallProviderExtract ==
    /\ bpc = "node"
    /\ provBounds' = ProviderExtractBounds(bnode)
    /\ bpc' = "provider"
    /\ UNCHANGED <<benc, bgeom, bnode, drvBounds>>

\* HarmonyDriver._extract_bounds(node), on the same node
CallDriverExtract ==
    /\ bpc = "provider"
    /\ drvBounds' = DriverExtractBounds(bnode)
    /\ bpc' = "both"
    /\ UNCHANGED <<benc, bgeom, bnode, provBounds>>

NextBounds ==
    \/ CallProviderExtract /\ UNCHANGED <<lvars, jvars, dvars>>
    \/ CallDriverExtract /\ UNCHANGED <<lvars, jvars, dvars>>

GeomRect(g) == Found(g[1], g[2], g[1] + g[3], g[2] + g[4])

\* C3 (as claimed): whichever of the four encodings a node uses for a geometry
\* of non-negative width and height, the provider's extractor and the driver's
\* extractor both yield the rectangle (left, top, left + width, top + height).
C3_AllEncodingsAgree ==
    bgeom # <<>> /\ bgeom[3] >= 0 /\ bgeom[4] >= 0 =>
        /\ bpc \in {"provider", "both"} => provBounds = GeomRect(bgeom)
        /\ bpc = "both" => drvBounds = GeomRect(bgeom)

----------------------------------------------------------------------------
(* State queries over small layout documents.  A document is a root dict    *)
(* whose first node (if any) sits under the non-child key "overlay", ahead  *)
(* of "children" in dict order, and whose other nodes are the "children"    *)
(* list.                                                                    *)

MaxNodes == 3

OK == StrV(<<Word("OK")>>)
IdA == StrV(<<Word("a")>>)

SampleNodes ==
    { \* the same rectangle and text in three encodings; the third adds an id
      EncodeBounds("bounds", 0, 0, 1, 1) \o <<Item("text", OK)>>,
      EncodeBounds("rect", 0, 0, 1, 1) \o <<Item("text", OK)>>,
      EncodeBounds("string", 0, 0, 1, 1) \o <<Item("text", OK), Item("id", IdA)>>,
      \* discrete fields, the largest rectangle
      EncodeBounds("fields", 0, 0, 2, 2) \o <<Item("label", OK)>>,
      \* a container: a rectangle and nothing else
      EncodeBounds("bounds", 0, 0, 2, 1),
      \* zero width
      EncodeBounds("bounds", 0, 0, 0, 1) \o <<Item("text", OK)>>,
      \* a dotted type and no text
      EncodeBounds("bounds", 0, 0, 1, 2)
          \o <<Item("type", StrV(<<Word("ohos"), Dot, Word("Button")>>))>>,
      \* only an id, and a text that spells the same
      EncodeBounds("bounds", 0, 0, 1, 1) \o <<Item("id", IdA)>>,
      EncodeBounds("bounds", 0, 0, 1, 1) \o <<Item("text", IdA)>>,
      \* no rectangle
      <<Item("text", OK)>>,
      \* a non-numeric string and a null where a number belongs
      <<Item("bounds", MapV(<<Item("left", StrV(<<Word("abc")>>)), Item("top", IntV(0)),
                              Item("right", IntV(1)), Item("bottom", IntV(1))>>)),
        Item("text", OK)>>,
      <<Item("x", IntV(0)), Item("y", IntV(0)), Item("width", None),
        Item("height", IntV(1)), Item("text", OK)>>,
      \* a string with the corners reversed
      <<Item("bounds", QuartetStr(2, 2, 0, 0)), Item("text", OK)>>,
      \* a rect without a width, discrete fields with a negative height
      <<Item("rect", MapV(<<Item("left", IntV(0)), Item("top", IntV(0)),
                            Item("height", IntV(1))>>)),
        Item("text", OK)>>,
      EncodeBounds("fields", 0, 0, 1, -1) \o <<Item("text", OK)>> }

RECURSIVE SeqsUpTo(_, _)
SeqsUpTo(S, n) ==
    IF n = 0 THEN {<<>>}
    ELSE LET shorter == SeqsUpTo(S, n - 1)
         IN  shorter \cup {Append(q, x) : q \in {r \in shorter : Len(r) = n - 1}, x \in S}

DocOf(kids) ==
    IF kids = <<>> THEN MapV(<<Item("children", ListV(<<>>))>>)
    ELSE MapV(<<Item("overlay", MapV(Head(kids))),
                Item("children", ListV([i \in 1..(Len(kids) - 1) |-> MapV(kids[i + 1])]))>>)

Docs == {DocOf(kids) : kids \in SeqsUpTo(SampleNodes, MaxNodes)}

NoSnapshot == [err |-> "", elements |-> <<>>, size |-> <<>>]

LayoutIdle ==
    /\ layout = None /\ lpc = "idle" /\ nodes = <<>> /\ idx = 0
    /\ elements = <<>> /\ seen = {} /\ kept = <<>> /\ lerr = "" /\ snapshot = NoSnapshot

InitLayout ==
    /\ layout \in Docs
    /\ lpc = "start" /\ nodes = <<>> /\ idx = 0
    /\ elements = <<>> /\ seen = {} /\ kept = <<>> /\ lerr = "" /\ snapshot = NoSnapshot

\* _parse_layout(layout) is entered: elements = [], seen = set(), the traversal
ParseLayoutEnter ==
    /\ lpc = "start"
    /\ nodes' = _iter_nodes(layout)
    /\ idx' = 1
    /\ elements' = EmptyAcc.elements /\ seen' = EmptyAcc.seen
    /\ lpc' = "loop"
    /\ UNCHANGED <<layout, kept, lerr, snapshot>>

\* The loop's variables after an iteration; an exception leaves the function.
LoopTo(acc) ==
    /\ elements' = acc.elements
    /\ seen' = acc.seen
    /\ lerr' = acc.err
    /\ lpc' = IF acc.err # "" THEN "raised" ELSE "loop"
    \* history: the traversal positions of the nodes that were appended
    /\ kept' = IF Len(acc.elements) > Len(elements) THEN Append(kept, idx) ELSE kept

\* one iteration of `for node in _iter_nodes(layout)`
ParseLayoutStep ==
    /\ lpc = "loop" /\ idx <= Len(nodes)
    /\ LoopTo(ParseNode([elements |-> elements, seen |-> seen, err |-> ""], nodes[idx]))
    /\ idx' = idx + 1
    /\ UNCHANGED <<layout, nodes, snapshot>>

\* return elements
ParseLayoutReturn ==
    /\ lpc = "loop" /\ idx > Len(nodes)
    /\ lpc' = "returned"
    /\ UNCHANGED <<layout, nodes, idx, elements, seen, kept, lerr, snapshot>>

\* HarmonyStateProvider.get_state(), the device's dump being `layout`
GetState ==
    /\ lpc = "start"
    /\ snapshot' = StateOf(layout)
    /\ lpc' = IF snapshot'.err # "" THEN "state_raised" ELSE "state"
    /\ UNCHANGED <<layout, nodes, idx, elements, seen, kept, lerr>>

NextLayout ==
    \/ ParseLayoutEnter /\ UNCHANGED <<bvars, jvars, dvars>>
    \/ ParseLayoutStep /\ UNCHANGED <<bvars, jvars, dvars>>
    \/ ParseLayoutReturn /\ UNCHANGED <<bvars, jvars, dvars>>
    \/ GetState /\ UNCHANGED <<bvars, jvars, dvars>>

----------------------------------------------------------------------------
(* Claims about the element list and the snapshot *)

\* The rectangle _extract_bounds finds in a visited dict, if any
RectOf(obj) == ProviderExtractBounds(obj.map)

\* C1: the element list _parse_layout builds carries the index values 1, 2, ..,
\* N in list order, at every point of the traversal and in what get_state
\* returns, however many nodes were discarded before or between the retained.
C1_IndexContiguity ==
    /\ \A i \in 1..Len(elements) : elements[i].index = i
    /\ \A i \in 1..Len(snapshot.elements) : snapshot.elements[i].index = i

\* A node with a rectangle that was not appended
Dropped(i) ==
    /\ RectOf(nodes[i]).kind = "rect"
    /\ \A k \in 1..Len(kept) : kept[k] # i

\* C1's case: _parse_layout returned two elements; the root, which has no
\* rectangle, was discarded before the first, and a node that has a rectangle
\* (degenerate, noise or duplicate) was discarded between the two.
C1_Witness ==
    /\ lpc = "returned" /\ Len(elements) = 2
    /\ kept[1] > 1 /\ RectOf(nodes[1]).kind = "none"
    /\ \E i \in (kept[1] + 1)..(kept[2] - 1) : Dropped(i)

\* The nodes that reach the dedup step: a well-formed rectangle and at least one
\* of className, resourceId, text.
ReachesDedup(obj) ==
    /\ RectOf(obj).kind = "rect"
    /\ RectOf(obj).rect[3] > RectOf(obj).rect[1]
    /\ RectOf(obj).rect[4] > RectOf(obj).rect[2]
    /\ \E keys \in {_TYPE_KEYS, _ID_KEYS, _TEXT_KEYS} : _extract_first(obj.map, keys) # <<>>

\* The dedup signature as the data model states it: the rectangle, the class
\* name (last dotted segment of the type) and the text.
DataModelSignature(obj) ==
    <<RectOf(obj).rect, LastSegment(_extract_first(obj.map, _TYPE_KEYS)),
      _extract_first(obj.map, _TEXT_KEYS)>>

\* The visited positions whose node is the first with its signature
FirstOfSignature(n) ==
    {i \in 1..n :
        /\ ReachesDedup(nodes[i])
        /\ \A j \in 1..(i - 1) :
              ReachesDedup(nodes[j]) => DataModelSignature(nodes[j]) # DataModelSignature(nodes[i])}

\* C2: among the nodes visited so far that reach the dedup step, those sharing
\* one signature (rectangle, className, text) yield exactly one element, built
\* from the first of them in traversal order; a later node of the same
\* signature is dropped whatever its resourceId.
C2_FirstOfSignatureKept ==
    lpc \in {"loop", "returned"} =>
        /\ Len(kept) = Len(elements)
        /\ \A k \in 1..(Len(kept) - 1) : kept[k] < kept[k + 1]
        /\ {kept[k] : k \in 1..Len(kept)} = FirstOfSignature(idx - 1)
        /\ \A k \in 1..Len(kept) :
              elements[k].resourceId = _extract_first(nodes[kept[k]].map, _ID_KEYS)

\* C2's case: three visited nodes share a signature, the third carrying a
\* resourceId the first does not have, and one element came out of them.
C2_Witness ==
    /\ lpc = "returned" /\ Len(elements) = 1
    /\ \E i, j, k \in 1..Len(nodes) :
          /\ i < j /\ j < k /\ kept = <<i>>
          /\ ReachesDedup(nodes[j]) /\ ReachesDedup(nodes[k])
          /\ DataModelSignature(nodes[j]) = DataModelSignature(nodes[i])
          /\ DataModelSignature(nodes[k]) = DataModelSignature(nodes[i])
          /\ _extract_first(nodes[k].map, _ID_KEYS) # _extract_first(nodes[i].map, _ID_KEYS)

\* The rectangle recorded in an element's bounds string
ElementRect(el) == FindInts(el.bounds)

MaxOf(S) == CHOOSE x \in S : \A y \in S : y <= x

\* C4 (as claimed): no dimensions being declared by the layout, the snapshot's
\* screen size is (maximum right, maximum bottom) over the extracted elements
\* when there is one, and (1080, 2400) when there is none.
C4_SizeFromElements ==
    lpc = "state" =>
        snapshot.size =
            IF snapshot.elements = <<>> THEN <<DEFAULT_WIDTH, DEFAULT_HEIGHT>>
            ELSE <<MaxOf({ElementRect(snapshot.elements[i])[3] : i \in 1..Len(snapshot.elements)}),
                   MaxOf({ElementRect(snapshot.elements[i])[4] : i \in 1..Len(snapshot.elements)})>>

\* C9 (as claimed): whatever the layout document holds, neither _parse_layout
\* nor the state query built on it and on the driver's screen-size scan raises.
C9_NeverRaises == lpc \notin {"raised", "state_raised"}

\* The recorded bounds string read back: right > left and bottom > top
WellFormed(rect) == Len(rect) = 4 /\ rect[3] > rect[1] /\ rect[4] > rect[2]

\* C12: every element, in the list _parse_layout builds and in every snapshot,
\* records bounds with right > left and bottom > top, whichever encoding the
\* node used (reversed string corners, missing or negative width or height).
C12_WellFormedRectangles ==
    /\ \A i \in 1..Len(elements) : WellFormed(ElementRect(elements[i]))
    /\ \A i \in 1..Len(snapshot.elements) : WellFormed(ElementRect(snapshot.elements[i]))

\* C12 happens: _parse_layout returned one element from a document that also
\* held a string with reversed corners, and a rect without width or discrete
\* fields with a negative height
C12_Witness ==
    /\ lpc = "returned" /\ Len(elements) = 1
    /\ \E i \in 1..Len(nodes) :
          RectOf(nodes[i]).kind = "rect" /\ RectOf(nodes[i]).rect = <<2, 2, 0, 0>>
    /\ \E i \in 1..Len(nodes) :
          /\ RectOf(nodes[i]).kind = "rect"
          /\ RectOf(nodes[i]).rect \in {<<0, 0, 0, 1>>, <<0, 0, 1, -1>>}
          /\ ~Has(nodes[i].map, "bounds")

\* What an element shows of itself
Recorded(el) == <<el.bounds, el.className, el.text>>

\* C14: in the element list _parse_layout returns no two elements record the
\* same bounds, className and text, also when the text was filled in from the
\* resourceId or the className.
C14_NoTwoElementsAlike ==
    lpc = "returned" =>
        \A i, j \in 1..Len(elements) :
            i # j => Recorded(elements[i]) # Recorded(elements[j])


----------------------------------------------------------------------------
(* HarmonyDriver._parse_json_payload.  A payload is a sequence of characters *)
(* of a small alphabet: the braces, "k" for a member's key and colon        *)
(* ("a":), "1" for a number, "x" for a character no JSON text starts with   *)
(* or continues with, " " for white space.                                  *)

MaxPayload == 6

JsonChars == {"{", "}", "k", "1", "x", " "}

\* The first position from i on that holds no white space (Len(s) + 1: none)
RECURSIVE SkipWs(_, _)
SkipWs(s, i) == IF i <= Len(s) /\ s[i] = " " THEN SkipWs(s, i + 1) ELSE i

NoParse == [ok |-> FALSE, val |-> None, next |-> 0]
Parsed(v, n) == [ok |-> TRUE, val |-> v, next |-> n]

\* The object whose member value was parsed as v, once its closing brace is
\* looked for at position c
CloseObject(s, v, c) ==
    IF v.ok /\ c <= Len(s) /\ s[c] = "}"
    THEN Parsed(MapV(<<Item("a", v.val)>>), c + 1)
    ELSE NoParse

\* The JSON decoder on the value that starts at position j (white space
\* skipped): a number, an empty object, or an object of one member.
RECURSIVE ScanValue(_, _)
ScanMember(s, a) ==
    IF a <= Len(s) /\ s[a] = "}" THEN Parsed(MapV(<<>>), a + 1)
    ELSE IF a <= Len(s) /\ s[a] = "k"
    THEN CloseObject(s, ScanValue(s, SkipWs(s, a + 1)),
                     SkipWs(s, ScanValue(s, SkipWs(s, a + 1)).next))
    ELSE NoParse

ScanValue(s, j) ==
    IF j > Len(s) THEN NoParse
    ELSE IF s[j] = "1" THEN Parsed(IntV(1), j + 1)
    ELSE IF s[j] = "{" THEN ScanMember(s, SkipWs(s, j + 1))
    ELSE NoParse

\* Nothing but white space may follow the value
WholeText(s, r) ==
    IF r.ok /\ SkipWs(s, r.next) > Len(s) THEN Ok(r.val) ELSE Raise("JSONDecodeError")

\* json.loads(s)
JsonLoads(s) == WholeText(s, ScanValue(s, SkipWs(s, 1)))

\* data if isinstance(data, dict) else {"root": data}
AsDocument(data) == IF IsMap(data) THEN data ELSE MapV(<<Item("root", data)>>)

EmptyDocument == MapV(<<>>)

\* text.find(c), 1-based; 0 for Python's -1
Find(s, c) ==
    IF \E i \in 1..Len(s) : s[i] = c
    THEN CHOOSE i \in 1..Len(s) : s[i] = c /\ \A j \in 1..(i - 1) : s[j] # c
    ELSE 0

\* text.rfind(c), 1-based; 0 for Python's -1
RFind(s, c) ==
    IF \E i \in 1..Len(s) : s[i] = c
    THEN CHOOSE i \in 1..Len(s) : s[i] = c /\ \A j \in (i + 1)..Len(s) : s[j] # c
    ELSE 0

\* payload.strip(), on characters
RECURSIVE StripChars(_)
StripChars(s) ==
    IF s # <<>> /\ s[1] = " " THEN StripChars(Tail(s))
    ELSE IF s # <<>> /\ s[Len(s)] = " " THEN StripChars(SubSeq(s, 1, Len(s) - 1))
    ELSE s

\* The document, json.loads having given r
DocumentOr(r, otherwise) == IF r.err = "" THEN AsDocument(r.val) ELSE otherwise

\* The fallback: json.loads(text[start : end + 1]) from the first "{" to the
\* last "}", or {}
FallbackDocument(text, start, end) ==
    IF start = 0 \/ end <= start THEN EmptyDocument
    ELSE DocumentOr(JsonLoads(SubSeq(text, start, end)), EmptyDocument)

ParseStripped(text) ==
    DocumentOr(JsonLoads(text), FallbackDocument(text, Find(text, "{"), RFind(text, "}")))

\* HarmonyDriver._parse_json_payload(payload)
_parse_json_payload(p) == ParseStripped(StripChars(p))

JsonIdle == payload = <<>> /\ jresult = None /\ jpc = "idle"

InitJson ==
    /\ payload \in SeqsUpTo(JsonChars, MaxPayload)
    /\ jresult = None
    /\ jpc = "call"

\* layout = self._parse_json_payload(payload)
ParseJsonPayload ==
    /\ jpc = "call"
    /\ jresult' = _parse_json_payload(payload)
    /\ jpc' = "done"
    /\ UNCHANGED payload

NextJson == ParseJsonPayload /\ UNCHANGED <<bvars, lvars, dvars>>

\* The nesting depth after each character of s from position i on, d being the
\* depth before it
RECURSIVE ClosingBrace(_, _, _)
ClosingBrace(s, i, d) ==
    IF i > Len(s) THEN 0
    ELSE IF s[i] = "{" THEN ClosingBrace(s, i + 1, d + 1)
    ELSE IF s[i] = "}" THEN (IF d = 1 THEN i ELSE ClosingBrace(s, i + 1, d - 1))
    ELSE ClosingBrace(s, i + 1, d)

\* The first balanced top-level object substring of s: from its first "{" to
\* the "}" that closes it (<<>>: there is none)
FirstBalancedObject(s) ==
    IF Find(s, "{") = 0 \/ ClosingBrace(s, Find(s, "{"), 0) = 0 THEN <<>>
    ELSE SubSeq(s, Find(s, "{"), ClosingBrace(s, Find(s, "{"), 0))

\* C10 (as claimed): when the whole payload is not valid JSON, the result is the
\* document parsed from its first balanced top-level object substring, and the
\* empty document only when no such object can be parsed.
C10_FirstBalancedObjectRecovered ==
    jpc = "done" /\ JsonLoads(StripChars(payload)).err # "" =>
        jresult = IF JsonLoads(FirstBalancedObject(payload)).err = ""
                  THEN JsonLoads(FirstBalancedObject(payload)).val
                  ELSE EmptyDocument

----------------------------------------------------------------------------
(* HarmonyDriver: operations as sequences of hdc commands.  Every command   *)
(* ends "ok" (exit code 0), "fail" (another exit code) or "timeout"; what   *)
(* it prints is drawn from small sets.                                      *)

Results == {"ok", "fail", "timeout"}

NoSerial == ""
Package == "com.example.app"

\* Return values and exceptions
NoOutcome == [kind |-> "none"]
Returns(v) == [kind |-> "return", val |-> v]
Raises(e) == [kind |-> "raise", exc |-> e]

PyNone == [none |-> TRUE]
PyBool(b) == [bool |-> b]
PyText(t) == [text |-> t]

\* HarmonyDriver._hdc_cmd
_hdc_cmd(args, with_target) ==
    IF with_target /\ serial # NoSerial THEN <<"hdc", "-t", serial>> \o args
    ELSE <<"hdc">> \o args

\* The argv of self._shell(cmd) / self._safe_shell(cmd), cmd given in words
ShellArgv(words) == _hdc_cmd(<<"shell">> \o words, TRUE)

\* A command as logged: its argv, how it ended, what it printed (when the
\* operation reads that) and the part of the operation that issued it (connect,
\* body, cleanup)
Printed(argv, res, part, out) == [argv |-> argv, res |-> res, part |-> part, out |-> out]
Issued(argv, res, part) == Printed(argv, res, part, "")

\* _run_checked: RuntimeError for a timeout (from _run_hdc) and for a non-zero
\* exit code
CheckedFails(res) == res # "ok"

\* Arguments of swipe and drag: start and end points in pixels, swipe's
\* duration_ms in milliseconds, drag's duration in seconds
StartPoints == {<<0, 0>>, <<3, 0>>}
EndPoints == {<<0, 0>>, <<3, 0>>, <<4, 0>>, <<3, 4>>, <<17, 0>>, <<17, 4>>, <<10000, 0>>}
SwipeDurations == {-5, 0, 1, 17, 1000, 10000}
DragDurations == {-1, 0, 1, 3}

\* (x1, y1, x2, y2, duration)
Gestures(durations) ==
    {<<p[1], p[2], q[1], q[2], d>> : p \in StartPoints, q \in EndPoints, d \in durations}

NoGesture == <<>>

NoOp == [name |-> "none", clear |-> FALSE, activity |-> "", gesture |-> NoGesture]

Operations ==
    {[name |-> n, clear |-> FALSE, activity |-> "", gesture |-> NoGesture] :
         n \in {"connect", "tap", "press_key", "screenshot", "get_ui_tree"}}
    \cup {[name |-> "input_text", clear |-> c, activity |-> "", gesture |-> NoGesture] :
              c \in BOOLEAN}
    \cup {[name |-> "start_app", clear |-> FALSE, activity |-> a, gesture |-> NoGesture] :
              a \in {"", "MainAbility"}}
    \cup {[name |-> "swipe", clear |-> FALSE, activity |-> "", gesture |-> g] :
              g \in Gestures(SwipeDurations)}
    \cup {[name |-> "drag", clear |-> FALSE, activity |-> "", gesture |-> g] :
              g \in Gestures(DragDurations)}

\* Where an operation's own steps start once ensure_connected has returned
BodyStart(o) ==
    CASE o.name = "connect" -> "done"
      [] o.name \in {"tap", "press_key"} -> "simple"
      [] o.name = "input_text" -> IF o.clear THEN "clear1" ELSE "inject"
      [] o.name = "start_app" -> IF o.activity # "" THEN "explicit" ELSE "implicit"
      [] o.name \in {"screenshot", "get_ui_tree"} -> "capture"
      [] o.name = "swipe" -> "swipe"
      [] o.name = "drag" -> "drag"

DriverIdle ==
    /\ connected = FALSE /\ serial = NoSerial /\ op = NoOp /\ dpc = "off"
    /\ cmds = <<>> /\ output = "" /\ resolved = <<>> /\ localExists = FALSE
    /\ primary = NoOutcome /\ outcome = NoOutcome

\* HarmonyDriver.__init__(serial)
InitDriver ==
    /\ connected = FALSE
    /\ serial \in {NoSerial, "SER1"}
    /\ op = NoOp /\ dpc = "idle"
    /\ cmds = <<>> /\ output = "" /\ resolved = <<>> /\ localExists = FALSE
    /\ primary = NoOutcome /\ outcome = NoOutcome

\* The caller invokes an operation (the previous one, if any, has finished)
Call ==
    /\ dpc \in {"idle", "done"}
    /\ op' \in Operations
    /\ dpc' = "enter"
    /\ cmds' = <<>> /\ output' = "" /\ resolved' = <<>> /\ localExists' = FALSE
    /\ primary' = NoOutcome /\ outcome' = NoOutcome
    /\ UNCHANGED <<connected, serial>>

\* Leaving the operation: what the caller gets
Finish(result) == dpc' = "done" /\ outcome' = result

\* ensure_connected / the head of connect: nothing to do when connected
ConnectEnter ==
    /\ dpc = "enter"
    /\ IF connected
       THEN IF BodyStart(op) = "done" THEN Finish(Returns(PyNone))
            ELSE dpc' = BodyStart(op) /\ UNCHANGED outcome
       ELSE dpc' = "which" /\ UNCHANGED outcome
    /\ UNCHANGED <<connected, serial, op, cmds, output, resolved, localExists, primary>>

\* connect: shutil.which("hdc")
ConnectWhich ==
    /\ dpc = "which"
    /\ \E found \in BOOLEAN :
          IF ~found THEN Finish(Raises("ConnectionError"))
          ELSE dpc' = (IF serial = NoSerial THEN "list" ELSE "probe") /\ UNCHANGED outcome
    /\ UNCHANGED <<connected, serial, op, cmds, output, resolved, localExists, primary>>

TargetLists == {<<>>, <<"SER1">>, <<"SER2", "SER1">>}

\* connect: self._serial = (await self._list_targets())[0]
ConnectListTargets ==
    /\ dpc = "list"
    /\ \E res \in Results, targets \in TargetLists :
          /\ cmds' = Append(cmds, Issued(_hdc_cmd(<<"list", "targets">>, FALSE), res, "connect"))
          /\ CASE res = "timeout" -> Finish(Raises("RuntimeError")) /\ UNCHANGED serial
               [] res = "fail" -> Finish(Raises("ConnectionError")) /\ UNCHANGED serial
               [] res = "ok" /\ targets = <<>> ->
                     Finish(Raises("ConnectionError")) /\ UNCHANGED serial
               [] OTHER -> serial' = targets[1] /\ dpc' = "probe" /\ UNCHANGED outcome
    /\ UNCHANGED <<connected, op, output, resolved, localExists, primary>>

\* (mutant) the probe sent through _safe_shell: its failure goes unnoticed
ConnectProbeUnchecked ==
    /\ dpc = "probe"
    /\ \E res \in Results :
          cmds' = Append(cmds, Issued(ShellArgv(<<"echo hdc_ok">>), res, "connect"))
    /\ dpc' = "daemon"
    /\ UNCHANGED <<connected, serial, op, output, resolved, localExists, primary, outcome>>

\* connect: await self._shell("echo hdc_ok")
ConnectProbe ==
    /\ dpc = "probe"
    /\ \E res \in Results :
          /\ cmds' = Append(cmds, Issued(ShellArgv(<<"echo hdc_ok">>), res, "connect"))
          /\ IF CheckedFails(res) THEN Finish(Raises("RuntimeError"))
             ELSE dpc' = "daemon" /\ UNCHANGED outcome
    /\ UNCHANGED <<connected, serial, op, output, resolved, localExists, primary>>

\* connect: await self._safe_shell("uitest start-daemon"); self._connected = True
ConnectDaemon ==
    /\ dpc = "daemon"
    /\ \E res \in Results :
          cmds' = Append(cmds, Issued(ShellArgv(<<"uitest start-daemon">>), res, "connect"))
    /\ connected' = TRUE
    /\ IF BodyStart(op) = "done" THEN Finish(Returns(PyNone))
       ELSE dpc' = BodyStart(op) /\ UNCHANGED outcome
    /\ UNCHANGED <<serial, op, output, resolved, localExists, primary>>

\* tap / press_key: one checked shell command
SimpleCommand(o) ==
    IF o.name = "tap" THEN <<"uitest uiInput click", "x", "y">>
    ELSE <<"uitest uiInput keyEvent", "key">>

SimpleShell ==
    /\ dpc = "simple"
    /\ \E res \in Results :
          /\ cmds' = Append(cmds, Issued(ShellArgv(SimpleCommand(op)), res, "body"))
          /\ Finish(IF CheckedFails(res) THEN Raises("RuntimeError") ELSE Returns(PyNone))
    /\ UNCHANGED <<connected, serial, op, output, resolved, localExists, primary>>

Min(a, b) == IF a <= b THEN a ELSE b
Abs(n) == IF n < 0 THEN -n ELSE n

\* The largest r in lo..hi with r * r <= n (lo * lo <= n)
RECURSIVE ISqrtIn(_, _, _)
ISqrtIn(n, lo, hi) ==
    IF lo >= hi THEN lo
    ELSE IF ((lo + hi + 1) \div 2) * ((lo + hi + 1) \div 2) <= n
         THEN ISqrtIn(n, (lo + hi + 1) \div 2, hi)
         ELSE ISqrtIn(n, lo, ((lo + hi + 1) \div 2) - 1)

\* math.hypot(dx, dy) in thousandths of a pixel, rounded down; along an axis
\* it is the length itself
Hypot1000(dx, dy) ==
    IF dy = 0 THEN 1000 * Abs(dx)
    ELSE IF dx = 0 THEN 1000 * Abs(dy)
    ELSE ISqrtIn(1000000 * (dx * dx + dy * dy), 0, 40000)

\* distance = max(1.0, math.hypot(float(x2 - x1), float(y2 - y1))), in thousandths
Distance1000(x1, y1, x2, y2) == Max(1000, Hypot1000(x2 - x1, y2 - y1))

\* The (distance in thousandths, duration_ms) pairs of the gestures above for
\* which the double-precision quotient distance / (duration_ms / 1000.0) comes
\* out just below the whole number it would be exactly: 17.0 / 0.017 is
\* 999.9999999999999
RoundsBelow == {<<17000, 17>>}

\* int(distance / (duration_ms / 1000.0)), duration_ms > 0
IntQuotient(d1000, duration_ms) ==
    (d1000 \div duration_ms) - (IF <<d1000, duration_ms>> \in RoundsBelow THEN 1 ELSE 0)

\* (mutant) the upper clamp left out
VelocityUnclamped(x1, y1, x2, y2, duration_ms) ==
    IF duration_ms <= 0 THEN 600
    ELSE Max(200, IntQuotient(Distance1000(x1, y1, x2, y2), duration_ms))

\* HarmonyDriver._duration_to_velocity
_duration_to_velocity(x1, y1, x2, y2, duration_ms) ==
    IF duration_ms <= 0 THEN 600
    ELSE Max(200, Min(40000, IntQuotient(Distance1000(x1, y1, x2, y2), duration_ms)))

\* swipe: a long click where the points coincide, else a swipe with a velocity
SwipeCommand(g) ==
    IF g[1] = g[3] /\ g[2] = g[4] THEN <<"uitest uiInput longClick", g[1], g[2]>>
    ELSE <<"uitest uiInput swipe", g[1], g[2], g[3], g[4],
           _duration_to_velocity(g[1], g[2], g[3], g[4], g[5])>>

\* drag: always a drag, its duration converted to milliseconds
DragCommand(g) ==
    <<"uitest uiInput drag", g[1], g[2], g[3], g[4],
      _duration_to_velocity(g[1], g[2], g[3], g[4], g[5] * 1000)>>

\* swipe: one checked shell command (then a sleep)
SwipeShell ==
    /\ dpc = "swipe"
    /\ \E res \in Results :
          /\ cmds' = Append(cmds, Issued(ShellArgv(SwipeCommand(op.gesture)), res, "body"))
          /\ Finish(IF CheckedFails(res) THEN Raises("RuntimeError") ELSE Returns(PyNone))
    /\ UNCHANGED <<connected, serial, op, output, resolved, localExists, primary>>

\* drag: one checked shell command (then a sleep)
DragShell ==
    /\ dpc = "drag"
    /\ \E res \in Results :
          /\ cmds' = Append(cmds, Issued(ShellArgv(DragCommand(op.gesture)), res, "body"))
          /\ Finish(IF CheckedFails(res) THEN Raises("RuntimeError") ELSE Returns(PyNone))
    /\ UNCHANGED <<connected, serial, op, output, resolved, localExists, primary>>

\* input_text's `except Exception: return False`
InputTextFailed == Returns(PyBool(FALSE))

\* (mutant) no try around the commands: the error reaches the caller
InputTextPropagates(res) == Raises("RuntimeError")

\* What a failed command makes of input_text
InputTextOnError(res) == InputTextFailed

\* input_text(clear=True): Ctrl+A
InputTextClear1 ==
    /\ dpc = "clear1"
    /\ \E res \in Results :
          /\ cmds' = Append(cmds, Issued(ShellArgv(<<"uitest uiInput keyEvent 2072 2017">>), res, "body"))
          /\ IF CheckedFails(res) THEN Finish(InputTextOnError(res))
             ELSE dpc' = "clear2" /\ UNCHANGED outcome
    /\ UNCHANGED <<connected, serial, op, output, resolved, localExists, primary>>

\* input_text(clear=True): Delete
InputTextClear2 ==
    /\ dpc = "clear2"
    /\ \E res \in Results :
          /\ cmds' = Append(cmds, Issued(ShellArgv(<<"uitest uiInput keyEvent 2055">>), res, "body"))
          /\ IF CheckedFails(res) THEN Finish(InputTextOnError(res))
             ELSE dpc' = "inject" /\ UNCHANGED outcome
    /\ UNCHANGED <<connected, serial, op, output, resolved, localExists, primary>>

\* input_text: uitest uiInput text <escaped>
InputTextInject ==
    /\ dpc = "inject"
    /\ \E res \in Results :
          /\ cmds' = Append(cmds, Issued(ShellArgv(<<"uitest uiInput text", "'text'">>), res, "body"))
          /\ Finish(IF CheckedFails(res) THEN InputTextOnError(res) ELSE Returns(PyBool(TRUE)))
    /\ UNCHANGED <<connected, serial, op, output, resolved, localExists, primary>>

\* What `aa start` may print
AaOutputs ==
    {"start ability successfully.", "START ABILITY FOR RESULT OK",
     "error: failed to start ability", " "}

\* HarmonyDriver._looks_like_aa_start_success: one of the two phrases occurs in
\* the lower-cased output
_looks_like_aa_start_success(o) ==
    o \in {"start ability successfully.", "START ABILITY FOR RESULT OK"}

\* output.strip(), on the outputs above
StripText(o) == IF o = " " THEN "" ELSE o

Str(x) == [s |-> x]

\* bool(v) for v a str or None
StrTruthy(v) == "s" \in DOMAIN v /\ v.s # ""

\* shlex.quote(v): "''" for an empty str and for None, a safe word as it is
ShlexQuote(v) == IF StrTruthy(v) THEN v.s ELSE "''"

StartedMsg(pkg, target) == [started |-> pkg, target |-> target]
FailedMsg(pkg) == [failed |-> pkg]
FailedWith(pkg, e) == [failed |-> pkg, exc |-> e]

\* output.strip() or <default message>
MessageOr(o, default) == IF StripText(o) # "" THEN PyText(StripText(o)) ELSE default

\* start_app's `except Exception as e: return f"Failed to start app {package}: {e}"`
StartAppOnError == Returns(FailedWith(Package, "RuntimeError"))

\* start_app(package, activity): the explicit launch
StartAppExplicit ==
    /\ dpc = "explicit"
    /\ \E res \in Results, o \in AaOutputs :
          /\ cmds' = Append(cmds, Printed(ShellArgv(<<"aa start", "-a", ShlexQuote(Str(op.activity)),
                                                      "-b", ShlexQuote(Str(Package))>>),
                                          res, "body", IF res = "ok" THEN o ELSE ""))
          /\ Finish(IF CheckedFails(res) THEN StartAppOnError
                    ELSE Returns(MessageOr(o, StartedMsg(Package, op.activity))))
    /\ UNCHANGED <<connected, serial, op, output, resolved, localExists, primary>>

ImplicitLaunch == <<"aa start", "-b", ShlexQuote(Str(Package))>>

\* start_app(package): the implicit launch
StartAppImplicit ==
    /\ dpc = "implicit"
    /\ \E res \in Results, o \in AaOutputs :
          /\ cmds' = Append(cmds, Printed(ShellArgv(ImplicitLaunch), res, "body",
                                          IF res = "ok" THEN o ELSE ""))
          /\ IF CheckedFails(res) THEN Finish(StartAppOnError) /\ UNCHANGED output
             ELSE IF _looks_like_aa_start_success(o)
             THEN Finish(Returns(MessageOr(o, StartedMsg(Package, "")))) /\ UNCHANGED output
             ELSE output' = o /\ dpc' = "lookup" /\ UNCHANGED outcome
    /\ UNCHANGED <<connected, serial, op, resolved, localExists, primary>>

\* What the three regular expressions of _resolve_launch_ability find in a
\* `bm dump -n` output: per field the matched group ("": no match; a match is
\* never empty but may be blank)
Dumps ==
    [mainEntry : {"", " ", "entry"}, mainAbility : {"", " ", "MainAbility"},
     mainElementName : {"", "ElementAbility"}, firstAbilityName : {"", "FirstAbility"}]

\* m.group(1).strip() if m else the value so far
Matched(group, sofar) == IF group # "" THEN Str(StripText(group)) ELSE sofar

\* if not ability_name: try the next pattern
OrNext(ability, group) == IF StrTruthy(ability) THEN ability ELSE Matched(group, ability)

\* _resolve_launch_ability on a dump that could be read: (module_name, ability_name)
ResolveFrom(dump) ==
    <<Matched(dump.mainEntry, PyNone),
      OrNext(OrNext(Matched(dump.mainAbility, PyNone), dump.mainElementName),
             dump.firstAbilityName)>>

\* _resolve_launch_ability when the dump command fails: return None, None
Unresolved == <<PyNone, PyNone>>

\* (mutant) the test the fallback was meant to make: an ability name was found
AbilityResolved(r) == StrTruthy(r[2])

\* `if resolved:` on the pair _resolve_launch_ability returns
ResolvedTruthy(r) == Len(r) > 0

LookupCommand == <<"bm dump -n", ShlexQuote(Str(Package))>>

\* start_app: resolved = await self._resolve_launch_ability(package)
StartAppLookup ==
    /\ dpc = "lookup"
    /\ \E res \in Results, dump \in Dumps :
          /\ cmds' = Append(cmds, Printed(ShellArgv(LookupCommand), res, "body",
                                          IF res = "ok" THEN dump ELSE ""))
          /\ resolved' = IF CheckedFails(res) THEN Unresolved ELSE ResolveFrom(dump)
    /\ IF ResolvedTruthy(resolved') THEN dpc' = "second" /\ UNCHANGED outcome
       ELSE Finish(Returns(MessageOr(output, FailedMsg(Package))))
    /\ UNCHANGED <<connected, serial, op, output, localExists, primary>>

\* The second launch: -a <ability> -b <package>, and -m <module> if module_name
SecondLaunch(r) ==
    <<"aa start", "-a", ShlexQuote(r[2]), "-b", ShlexQuote(Str(Package))>>
        \o (IF StrTruthy(r[1]) THEN <<"-m", ShlexQuote(r[1])>> ELSE <<>>)

\* start_app: the launch that names the resolved ability
StartAppSecond ==
    /\ dpc = "second"
    /\ \E res \in Results, o \in AaOutputs :
          /\ cmds' = Append(cmds, Printed(ShellArgv(SecondLaunch(resolved)), res, "body",
                                          IF res = "ok" THEN o ELSE ""))
          /\ Finish(IF CheckedFails(res) THEN StartAppOnError
                    ELSE IF _looks_like_aa_start_success(o)
                    THEN Returns(MessageOr(o, StartedMsg(Package, ShlexQuote(resolved[2]))))
                    ELSE Returns(MessageOr(output, FailedMsg(Package))))
    /\ UNCHANGED <<connected, serial, op, output, resolved, localExists, primary>>

RemoteTemp == "/data/local/tmp/droidrun_<uuid>"
LocalTemp == "<tmp>/droidrun_<uuid>"

CaptureCommand(o) ==
    IF o.name = "screenshot" THEN <<"uitest screenCap -p", RemoteTemp>>
    ELSE <<"uitest dumpLayout -p", RemoteTemp>>

\* An exception in the try block: the finally block runs with it pending
ToFinally(pending) == primary' = pending /\ dpc' = "cleanup_local"

\* screenshot / get_ui_tree: the capture command, first in the try block
Capture ==
    /\ dpc = "capture"
    /\ \E res \in Results :
          /\ cmds' = Append(cmds, Issued(ShellArgv(CaptureCommand(op)), res, "body"))
          /\ IF CheckedFails(res) THEN ToFinally(Raises("RuntimeError"))
             ELSE dpc' = "recv" /\ UNCHANGED primary
    /\ UNCHANGED <<connected, serial, op, output, resolved, localExists, outcome>>

\* screenshot / get_ui_tree: hdc file recv <remote> <local>
Receive ==
    /\ dpc = "recv"
    /\ \E res \in Results, written \in BOOLEAN :
          /\ cmds' = Append(cmds, Issued(_hdc_cmd(<<"file", "recv", RemoteTemp, LocalTemp>>, TRUE),
                                         res, "body"))
          /\ localExists' = written
          /\ IF CheckedFails(res) THEN ToFinally(Raises("RuntimeError"))
             ELSE dpc' = "read" /\ UNCHANGED primary
    /\ UNCHANGED <<connected, serial, op, output, resolved, outcome>>

\* What reading the local file and building the result may give: screenshot
\* returns the bytes or raises ValueError when there are none; get_ui_tree
\* returns the tree, or raises what _infer_screen_size raises on the layout
ReadResults(o) ==
    IF o.name = "screenshot" THEN {Returns([bytes |-> "png"]), Raises("ValueError")}
    ELSE {Returns([tree |-> "layout"]), Raises("ValueError"), Raises("TypeError")}

\* screenshot / get_ui_tree: read the local file, build the result
ReadLocal ==
    /\ dpc = "read"
    /\ \E r \in ReadResults(op) :
          ToFinally(IF localExists THEN r ELSE Raises("FileNotFoundError"))
    /\ UNCHANGED <<connected, serial, op, cmds, output, resolved, localExists, outcome>>

\* finally: try: if local.exists(): local.unlink()  except Exception: pass
CleanupLocal ==
    /\ dpc = "cleanup_local"
    /\ \E unlinked \in BOOLEAN : localExists' = (localExists /\ ~unlinked)
    /\ dpc' = "cleanup_remote"
    /\ UNCHANGED <<connected, serial, op, cmds, output, resolved, primary, outcome>>

\* (mutant) the remote delete through _shell: its failure replaces what was pending
AfterCheckedShell(pending, res) ==
    IF CheckedFails(res) THEN Raises("RuntimeError") ELSE pending

\* _safe_shell in a finally block: whatever the command does, what was pending
\* (the return value or the exception of the try block) stays
AfterSafeShell(pending, res) == pending

\* finally: await self._safe_shell(f"rm -f {remote}")
CleanupRemote ==
    /\ dpc = "cleanup_remote"
    /\ \E res \in Results :
          /\ cmds' = Append(cmds, Issued(ShellArgv(<<"rm -f", RemoteTemp>>), res, "cleanup"))
          /\ Finish(AfterSafeShell(primary, res))
    /\ UNCHANGED <<connected, serial, op, output, resolved, localExists, primary>>

NextDriver ==
    \/ Call /\ UNCHANGED <<bvars, lvars, jvars>>
    \/ ConnectEnter /\ UNCHANGED <<bvars, lvars, jvars>>
    \/ ConnectWhich /\ UNCHANGED <<bvars, lvars, jvars>>
    \/ ConnectListTargets /\ UNCHANGED <<bvars, lvars, jvars>>
    \/ ConnectProbe /\ UNCHANGED <<bvars, lvars, jvars>>
    \/ ConnectDaemon /\ UNCHANGED <<bvars, lvars, jvars>>
    \/ SimpleShell /\ UNCHANGED <<bvars, lvars, jvars>>
    \/ SwipeShell /\ UNCHANGED <<bvars, lvars, jvars>>
    \/ DragShell /\ UNCHANGED <<bvars, lvars, jvars>>
    \/ InputTextClear1 /\ UNCHANGED <<bvars, lvars, jvars>>
    \/ InputTextClear2 /\ UNCHANGED <<bvars, lvars, jvars>>
    \/ InputTextInject /\ UNCHANGED <<bvars, lvars, jvars>>
    \/ StartAppExplicit /\ UNCHANGED <<bvars, lvars, jvars>>
    \/ StartAppImplicit /\ UNCHANGED <<bvars, lvars, jvars>>
    \/ StartAppLookup /\ UNCHANGED <<bvars, lvars, jvars>>
    \/ StartAppSecond /\ UNCHANGED <<bvars, lvars, jvars>>
    \/ Capture /\ UNCHANGED <<bvars, lvars, jvars>>
    \/ Receive /\ UNCHANGED <<bvars, lvars, jvars>>
    \/ ReadLocal /\ UNCHANGED <<bvars, lvars, jvars>>
    \/ CleanupLocal /\ UNCHANGED <<bvars, lvars, jvars>>
    \/ CleanupRemote /\ UNCHANGED <<bvars, lvars, jvars>>

----------------------------------------------------------------------------
(* Claims about the driver *)

\* The commands the operation itself issued, after ensure_connected returned
BodyCmds == SelectSeq(cmds, LAMBDA c : c.part = "body")

ImplicitCall == op.name = "start_app" /\ op.activity = ""

Blank(t) == t \in {"", " "}

\* The ability a dump names: the first of the three fields that is not blank
NamedAbility(d) ==
    IF ~Blank(d.mainAbility) THEN d.mainAbility
    ELSE IF ~Blank(d.mainElementName) THEN d.mainElementName
    ELSE IF ~Blank(d.firstAbilityName) THEN d.firstAbilityName
    ELSE "''"

\* The launch that names what the lookup found (nothing, if it failed)
LaunchNaming(lookup) ==
    IF lookup.res # "ok" THEN <<"aa start", "-a", "''", "-b", Package>>
    ELSE <<"aa start", "-a", NamedAbility(lookup.out), "-b", Package>>
             \o (IF Blank(lookup.out.mainEntry) THEN <<>>
                 ELSE <<"-m", lookup.out.mainEntry>>)

\* C5: in start_app without an activity the first command is the implicit
\* launch; if its output holds no success phrase, the metadata lookup for the
\* package and then a second launch follow, the second launch naming the
\* resolved ability and, when one was resolved, the module; if the output holds
\* a success phrase, nothing follows the implicit launch.
C5_FallbackOrder ==
    ImplicitCall /\ BodyCmds # <<>> =>
        /\ BodyCmds[1].argv = ShellArgv(<<"aa start", "-b", Package>>)
        /\ Len(BodyCmds) >= 2 =>
              /\ BodyCmds[1].res = "ok"
              /\ ~_looks_like_aa_start_success(BodyCmds[1].out)
              /\ BodyCmds[2].argv = ShellArgv(<<"bm dump -n", Package>>)
        /\ Len(BodyCmds) >= 3 =>
              /\ Len(BodyCmds) = 3
              /\ BodyCmds[3].argv = ShellArgv(LaunchNaming(BodyCmds[2]))
        /\ dpc = "done" /\ BodyCmds[1].res = "ok" =>
              IF _looks_like_aa_start_success(BodyCmds[1].out)
              THEN Len(BodyCmds) = 1
              ELSE Len(BodyCmds) = 3

\* C5 happens: the implicit launch printed an error, the lookup found the
\* element name and the module, and the second launch named both and succeeded
C5_Witness ==
    /\ ImplicitCall /\ dpc = "done" /\ Len(BodyCmds) = 3
    /\ BodyCmds[1].out = "error: failed to start ability"
    /\ BodyCmds[3].argv = ShellArgv(<<"aa start", "-a", "ElementAbility", "-b", Package,
                                      "-m", "entry">>)
    /\ BodyCmds[3].res = "ok"
    /\ outcome = Returns(PyText("start ability successfully."))

\* C6: in start_app without an activity, when the implicit launch output does
\* not look successful and the fallback gives no successful attempt, start_app
\* returns the implicit launch's output as its message and does not raise.
C6_OriginalOutputReturned ==
    /\ ImplicitCall /\ dpc = "done" /\ BodyCmds # <<>>
    /\ BodyCmds[1].res = "ok" /\ ~_looks_like_aa_start_success(BodyCmds[1].out)
    /\ ~(/\ Len(BodyCmds) = 3 /\ BodyCmds[3].res = "ok"
         /\ _looks_like_aa_start_success(BodyCmds[3].out))
    => outcome = Returns(MessageOr(BodyCmds[1].out, FailedMsg(Package)))

TextCommand == <<"uitest uiInput text", "'text'">>
ClearCommands == << <<"uitest uiInput keyEvent 2072 2017">>, <<"uitest uiInput keyEvent 2055">> >>

\* The commands of input_text in the order it issues them
InputTextPlan(o) ==
    IF o.clear THEN <<ShellArgv(ClearCommands[1]), ShellArgv(ClearCommands[2]), ShellArgv(TextCommand)>>
    ELSE <<ShellArgv(TextCommand)>>

\* True only when the text command succeeded; the commands follow the plan
InputTextOrder ==
    /\ Len(BodyCmds) <= Len(InputTextPlan(op))
    /\ \A i \in 1..Len(BodyCmds) : BodyCmds[i].argv = InputTextPlan(op)[i]
    /\ outcome = Returns(PyBool(TRUE)) =>
          /\ Len(BodyCmds) = Len(InputTextPlan(op))
          /\ BodyCmds[Len(BodyCmds)].res = "ok"

\* C7 as stated: in input_text a failure of any device command issued during
\* the call gives the return value False and no exception; True only when the
\* text command succeeded; with clear the two key events come first, in order.
C7_AnyFailureGivesFalse ==
    op.name = "input_text" /\ dpc = "done" =>
        /\ (\E i \in 1..Len(cmds) : cmds[i].res # "ok") => outcome = Returns(PyBool(FALSE))
        /\ InputTextOrder

\* C7 as amended: a failure of a command input_text itself issues (the clear key
\* events, the text command) gives False; an exception reaches the caller only
\* from connecting, before any of these commands; True only when the text
\* command succeeded; with clear the two key events come first, in order.
C7_OwnFailureGivesFalse ==
    op.name = "input_text" /\ dpc = "done" =>
        /\ (\E i \in 1..Len(BodyCmds) : BodyCmds[i].res # "ok") =>
              outcome = Returns(PyBool(FALSE))
        /\ outcome.kind = "raise" =>
              /\ BodyCmds = <<>> /\ ~connected
              /\ outcome.exc \in {"ConnectionError", "RuntimeError"}
        /\ InputTextOrder

\* C7 happens: with clear both key events went through and the text command
\* timed out
C7_Witness ==
    /\ op.name = "input_text" /\ op.clear /\ dpc = "done"
    /\ Len(BodyCmds) = 3 /\ BodyCmds[1].res = "ok" /\ BodyCmds[2].res = "ok"
    /\ BodyCmds[3].res = "timeout"
    /\ outcome = Returns(PyBool(FALSE))

CaptureCall == op.name \in {"screenshot", "get_ui_tree"}

\* What the primary steps give, from the log: a failed capture or transfer is a
\* RuntimeError, otherwise the read decides
PrimaryFromLog ==
    IF BodyCmds[Len(BodyCmds)].res # "ok" THEN {Raises("RuntimeError")}
    ELSE ReadResults(op) \cup {Raises("FileNotFoundError")}

\* C8: in screenshot and get_ui_tree, on every exit after the temporary names
\* are chosen, the last command is the delete of the on-device artifact, issued
\* after the primary steps, and the caller gets the primary result or error
\* whatever the two deletes did.
C8_CleanupAlwaysAttempted ==
    CaptureCall /\ dpc = "done" /\ BodyCmds # <<>> =>
        /\ cmds[Len(cmds)].part = "cleanup"
        /\ cmds[Len(cmds)].argv = ShellArgv(<<"rm -f", RemoteTemp>>)
        /\ \A i \in 1..(Len(cmds) - 1) : cmds[i].part # "cleanup"
        /\ outcome = primary
        /\ outcome \in PrimaryFromLog
        /\ Len(BodyCmds) = 2 \/ BodyCmds[Len(BodyCmds)].res # "ok"

\* C8 happens: the screenshot was read, the local file could not be unlinked,
\* the remote delete failed, and the bytes were returned
C8_Witness ==
    /\ op.name = "screenshot" /\ dpc = "done"
    /\ localExists
    /\ cmds[Len(cmds)].part = "cleanup" /\ cmds[Len(cmds)].res = "fail"
    /\ outcome = Returns([bytes |-> "png"])

\* The body command of a swipe or drag that carries a velocity
VelocityCommand ==
    /\ op.name \in {"swipe", "drag"} /\ BodyCmds # <<>>
    /\ Len(SwipeCommand(op.gesture)) = 6 \/ op.name = "drag"

IssuedVelocity == BodyCmds[1].argv[Len(BodyCmds[1].argv)]

\* The duration of the gesture in milliseconds
GestureMs == IF op.name = "drag" THEN 1000 * op.gesture[5] ELSE op.gesture[5]

\* The Euclidean distance of the gesture in thousandths of a pixel
GestureDistance1000 ==
    Hypot1000(op.gesture[3] - op.gesture[1], op.gesture[4] - op.gesture[2])

Clamped(v) == IF v < 200 THEN 200 ELSE IF v > 40000 THEN 40000 ELSE v

\* C11 as stated: for every start, end and duration of a swipe (start # end) or
\* drag, the velocity in the command is an integer in 200..40000, the Euclidean
\* distance divided by the duration in seconds, truncated, then clamped (a
\* negative quotient clamps to 200).
C11_VelocityIsClampedQuotient ==
    VelocityCommand =>
        /\ IssuedVelocity \in 200..40000
        /\ GestureMs > 0 =>
              IssuedVelocity = Clamped(GestureDistance1000 \div GestureMs)
        /\ GestureMs < 0 => IssuedVelocity = 200

\* C11 as amended: the velocity is an integer in 200..40000; for a duration of
\* zero or less it is 600; otherwise it is the distance, taken as at least one
\* pixel, divided by the duration in seconds, truncated and clamped, where the
\* quotient is a double and may truncate to one below the exact value; drag
\* computes it as swipe does, from its duration in seconds times 1000.
C11_VelocityAsComputed ==
    VelocityCommand =>
        /\ IssuedVelocity \in 200..40000
        /\ GestureMs <= 0 => IssuedVelocity = 600
        /\ GestureMs > 0 =>
              /\ IssuedVelocity \in
                     {Clamped(Max(1000, GestureDistance1000) \div GestureMs),
                      Clamped((Max(1000, GestureDistance1000) \div GestureMs) - 1)}
              /\ Max(1000, GestureDistance1000) % GestureMs # 0 =>
                     IssuedVelocity = Clamped(Max(1000, GestureDistance1000) \div GestureMs)

\* C11 happens: a swipe over 10000 pixels in 1 ms was issued with velocity 40000
C11_Witness ==
    /\ op.name = "swipe" /\ dpc = "done" /\ VelocityCommand
    /\ op.gesture = <<0, 0, 10000, 0, 1>>
    /\ IssuedVelocity = 40000

\* The log holds a probe that succeeded
ProbeSucceeded(log) ==
    \E i \in 1..Len(log) :
        /\ log[i].part = "connect" /\ log[i].res = "ok"
        /\ log[i].argv[Len(log[i].argv)] = "echo hdc_ok"

\* The command a step issued, if it issued one
JustIssued(before, after) == Len(after) = Len(before) + 1

\* C13: over any sequence of operations, the driver becomes connected only by a
\* connect whose probe succeeded and then stays connected; a call that ends in
\* an error while connecting leaves it not connected; an operation entered
\* while not connected goes through connect first, and issues its own commands
\* only when connected; no connect command is issued once connected; the
\* serial, once bound, never changes.
C13_ConnectionState ==
    [][/\ (~connected /\ connected') => ProbeSucceeded(cmds')
       /\ connected => connected'
       /\ (~connected /\ dpc' = "done" /\ outcome'.kind = "raise") => ~connected'
       /\ (dpc = "enter" /\ ~connected) => (dpc' = "which" /\ cmds' = cmds)
       /\ JustIssued(cmds, cmds') =>
             IF cmds'[Len(cmds')].part = "connect" THEN ~connected ELSE connected
       /\ serial # NoSerial => serial' = serial]_vars

\* C13 happens: a call that found the serial already bound by an earlier, failed
\* connect (no device listing in this call) connected and issued its own command
C13_Witness ==
    /\ op.name = "tap" /\ dpc = "done" /\ connected /\ serial = "SER2"
    /\ BodyCmds # <<>>
    /\ cmds[1].part = "connect" /\ cmds[1].argv = <<"hdc", "-t", "SER2", "shell", "echo hdc_ok">>

----------------------------------------------------------------------------
(* Specifications *)

BoundsInit == InitBounds /\ LayoutIdle /\ JsonIdle /\ DriverIdle
SpecBounds == BoundsInit /\ [][NextBounds]_vars

LayoutInit == InitLayout /\ BoundsIdle /\ JsonIdle /\ DriverIdle
SpecLayout == LayoutInit /\ [][NextLayout]_vars

JsonInit == InitJson /\ BoundsIdle /\ LayoutIdle /\ DriverIdle
SpecJson == JsonInit /\ [][NextJson]_vars

DriverInit == InitDriver /\ BoundsIdle /\ LayoutIdle /\ JsonIdle
SpecDriver == DriverInit /\ [][NextDriver]_vars

====
